---- MODULE Spec2Model ----
(***************************************************************************)
(* The QOI codec of the GIMP plug-in file-qoi.c: save_image (the encoder)  *)
(* and load_image (the decoder), as state machines over byte sequences.    *)
(* Indices (file_index, pixel_index) are 0-based as in the C code; the     *)
(* operators At and PixelAt translate them to TLA+'s 1-based sequences.    *)
(***************************************************************************)
EXTENDS Integers, Sequences, FiniteSets, TLC

(***************************************************************************)
(* Program constants (file-qoi.c lines 18-39) and GIMP's size limit.       *)
(***************************************************************************)
QOI_HEADER_SIZE == 14
QOI_END_MARKER_SIZE == 8
QOI_CHANNELS_RGB == 3
QOI_CHANNELS_RGBA == 4
QOI_OP_RGB == 254
QOI_OP_RGBA == 255
QOI_OP_INDEX == 0
QOI_OP_DIFF == 64
QOI_OP_LUMA == 128
QOI_OP_RUN == 192
QOI_MAX_RUN_LENGTH == 62
QOI_DIFF_LOWER_BOUND == -2
QOI_DIFF_UPPER_BOUND == 1
QOI_LUMA_GREEN_LOWER_BOUND == -32
QOI_LUMA_GREEN_UPPER_BOUND == 31
QOI_LUMA_RED_BLUE_LOWER_BOUND == -8
QOI_LUMA_RED_BLUE_UPPER_BOUND == 7
QOI_COLORSPACE_SRGB == 0
QOI_COLORSPACE_LINEAR == 1
\* libgimpbase/gimplimits.h of GIMP 2.10: 2^19
GIMP_MAX_IMAGE_SIZE == 524288
\* the number of slots of "QoiPixel array[64]"
ArraySize == 64

QOI_END_MARKER == <<0, 0, 0, 0, 0, 0, 0, 1>>
\* "qoif"
Magic == <<113, 111, 105, 102>>

(***************************************************************************)
(* A guint32 is kept as its four bytes, least significant first (TLC's     *)
(* integers end at 2^31 - 1).  ToU32 is the guint32 of a number below      *)
(* 2^31; Mul32 is the guint32 product, which wraps modulo 2^32.            *)
(***************************************************************************)
ToU32(n) ==
    <<n % 256, (n \div 256) % 256, (n \div 65536) % 256, (n \div 16777216) % 256>>

Zero32 == <<0, 0, 0, 0>>

\* a < b, a > b for guint32 (and for the guint64 that holds a guint32 product)
Lt32(a, b) ==
    \/ a[4] < b[4]
    \/ a[4] = b[4] /\ a[3] < b[3]
    \/ a[4] = b[4] /\ a[3] = b[3] /\ a[2] < b[2]
    \/ a[4] = b[4] /\ a[3] = b[3] /\ a[2] = b[2] /\ a[1] < b[1]

Gt32(a, b) == Lt32(b, a)

Mul32(a, b) ==
    LET c1 == a[1] * b[1]
        c2 == a[1] * b[2] + a[2] * b[1] + (c1 \div 256)
        c3 == a[1] * b[3] + a[2] * b[2] + a[3] * b[1] + (c2 \div 256)
        c4 == a[1] * b[4] + a[2] * b[3] + a[3] * b[2] + a[4] * b[1] + (c3 \div 256)
    IN  <<c1 % 256, c2 % 256, c3 % 256, c4 % 256>>

\* guint8 arithmetic wraps modulo 2^8
U8(n) == n % 256

(***************************************************************************)
(* Bounds of the model.                                                    *)
(***************************************************************************)
\* the number of distinct pixel positions of a generated image (before the
\* first one is repeated)
MaxPixels == 3
\* the first pixel of a generated image is repeated up to
\* MaxFullRuns * 62 + 1 times
MaxFullRuns == 1

(***************************************************************************)
(* Pixels.                                                                 *)
(***************************************************************************)
Pixel(r, g, b, a) == [red |-> r, green |-> g, blue |-> b, alpha |-> a]

\* QoiPixel x = { 0 }
ZeroPixel == Pixel(0, 0, 0, 0)
\* QoiPixel x = { .alpha = 255 }
StartPixel == Pixel(0, 0, 0, 255)

qoi_pixel_equal(a, b) ==
    /\ a.red = b.red
    /\ a.green = b.green
    /\ a.blue = b.blue
    /\ a.alpha = b.alpha

qoi_pixel_hash(pixel) ==
    (pixel.red * 3 + pixel.green * 5 + pixel.blue * 7 + pixel.alpha * 11) % 64

\* QoiPixel array[64] = { 0 }
EmptyArray == [i \in 0 .. ArraySize - 1 |-> ZeroPixel]

(***************************************************************************)
(* Byte order, on a little-endian host (G_BYTE_ORDER == G_LITTLE_ENDIAN):  *)
(* the swap moves the byte under each mask to the mirrored place, and the  *)
(* bytes of a guint32 field of QoiHeader lie in memory least significant   *)
(* first, which is the order this representation keeps them in.            *)
(***************************************************************************)
guint32_swap_local_and_big_endian(value) ==
    <<value[4], value[3], value[2], value[1]>>

\* the four bytes in memory of a guint32 field, and the field of four bytes
StoreU32(v) == <<v[1], v[2], v[3], v[4]>>
LoadU32(b0, b1, b2, b3) == <<b0, b1, b2, b3>>

\* what a read past the end of a buffer gives: no byte of the file
OutOfBounds == 256

\* the byte at 0-based index i of a byte sequence
At(data, i) == IF i < Len(data) THEN data[i + 1] ELSE OutOfBounds
\* the pixel at 0-based index i of a pixel sequence
PixelAt(pixels, i) == pixels[i + 1]

(***************************************************************************)
(* The pixels the generated images are made of: the start value of the     *)
(* previous-pixel register, the zero pixel (cache slot 0 at the start),    *)
(* two pixels with the same hash (Near, Luma: hash 56), a far pixel and    *)
(* the far pixel with another alpha.                                       *)
(***************************************************************************)
Near == Pixel(1, 0, 0, 255)
Luma == Pixel(4, 4, 5, 255)
Far == Pixel(100, 50, 200, 255)
FarAlpha == Pixel(100, 50, 200, 128)

PixelSet == {StartPixel, ZeroPixel, Near, Luma, Far, FarAlpha}

\* how many times the first pixel of a generated image is repeated
Repeats == {1} \cup {k * QOI_MAX_RUN_LENGTH + d : k \in 1 .. MaxFullRuns, d \in 0 .. 1}

Repeat(p, n) == [i \in 1 .. n |-> p]

\* the pixel sequences of the generated images: a first pixel repeated, then
\* up to MaxPixels - 1 further pixels
SeqsOf(max, repeats) ==
    UNION {{Repeat(s[1], n) \o Tail(s) : n \in repeats, s \in [1 .. len -> PixelSet]}
           : len \in 1 .. max}

PixelSeqs == SeqsOf(MaxPixels, Repeats)

\* a QoiImage as get_qoi_image_from_gimp builds it: width * height pixels
ImageOf(pixels, height, has_alpha, colorspace) ==
    [pixels |-> pixels,
     width |-> Len(pixels) \div height,
     height |-> height,
     colorspace |-> colorspace,
     has_alpha |-> has_alpha]

Images(seqs, colorspaces) ==
    {ImageOf(pixels, 1, has_alpha, colorspace) :
        pixels \in seqs, has_alpha \in BOOLEAN, colorspace \in colorspaces}

(***************************************************************************)
(* State.                                                                  *)
(*   image            the QoiImage handed to save_image                    *)
(*   pc               the position of the program                          *)
(*   s_file_data      save_image: file_data[0 .. file_index - 1]           *)
(*   s_pixel_index    save_image: pixel_index                              *)
(*   previous_pixel   save_image: previous_pixel                           *)
(*   s_array          save_image: array                                    *)
(*   s_chunks         history: the chunks save_image has emitted, each     *)
(*                    with the pixel index it was emitted for, the length  *)
(*                    of a run and, of the other chunks, the pixel that    *)
(*                    array[hash] held when the branch was chosen          *)
(*   file             the bytes of the file load_image opens               *)
(*   file_index, pixel_index, max_pixel_index, current_pixel, array        *)
(*                    load_image's locals of these names                   *)
(*   result           the caller's QoiImage, *result of load_image         *)
(*   heap             the pixels load_image has stored through             *)
(*                    result->pixels, in order (heap[i + 1] is             *)
(*                    result->pixels[i]); capacity is the number of        *)
(*                    pixels the allocation holds                          *)
(*   ret, error       what load_image returned and the message it gave     *)
(*   max_read         history: the highest index of file_data read by the  *)
(*                    chunk loop and the trailer so far; -1 before         *)
(*   ended_early      history: the chunk loop was left by the end-marker   *)
(*                    break                                                *)
(*   chunks_end       history: the index of the first byte after the last  *)
(*                    pixel chunk, once the chunk loop is left (at the     *)
(*                    end-marker break, the index of the tag); -1 before   *)
(*   header_read      history: the highest index of file_data that the     *)
(*                    copy of the header read; -1 before                   *)
(*   frees            history: for each g_free of the pixels pointer, what *)
(*                    the pointer was: "allocated", "freed" (it dangles),  *)
(*                    "null", or "indeterminate" (it was never written)    *)
(***************************************************************************)
VARIABLES image, pc, s_file_data, s_pixel_index, previous_pixel, s_array,
          s_chunks, file, file_index, pixel_index, max_pixel_index,
          current_pixel, array, result, heap, capacity, ret, error, max_read,
          ended_early, chunks_end, header_read, frees

save_vars == <<image, s_file_data, s_pixel_index, previous_pixel, s_array, s_chunks>>
load_vars == <<file, file_index, pixel_index, max_pixel_index, current_pixel,
               array, result, heap, capacity, ret, error, max_read,
               ended_early, chunks_end, header_read, frees>>
vars == <<pc, save_vars, load_vars>>

\* "QoiImage qoi_image;" in run() before load_image is called: it is not
\* initialised, and the record holds only the fields that have been written
ResultBefore == [field \in {} |-> FALSE]

\* "result->field = value"
Assigned(r, field, value) ==
    [f \in DOMAIN r \cup {field} |-> IF f = field THEN value ELSE r[f]]

\* load_image's locals before load_image runs
LoadIdle ==
    /\ file_index = 0
    /\ pixel_index = 0
    /\ max_pixel_index = Zero32
    /\ current_pixel = StartPixel
    /\ array = EmptyArray
    /\ result = ResultBefore
    /\ heap = <<>>
    /\ capacity = Zero32
    /\ ret = "running"
    /\ error = "None"
    /\ max_read = -1
    /\ ended_early = FALSE
    /\ chunks_end = -1
    /\ header_read = -1
    /\ frees = <<>>

\* save_image's locals before save_image runs
SaveIdle ==
    /\ s_file_data = <<>>
    /\ s_pixel_index = 0
    /\ previous_pixel = StartPixel
    /\ s_array = EmptyArray
    /\ s_chunks = <<>>

(***************************************************************************)
(* save_image.                                                             *)
(***************************************************************************)
\* the 14 bytes of QoiHeader that save_image stores at file_data[0]
HeaderBytes(img) ==
    Magic
    \o StoreU32(guint32_swap_local_and_big_endian(ToU32(img.width)))
    \o StoreU32(guint32_swap_local_and_big_endian(ToU32(img.height)))
    \o <<IF img.has_alpha THEN QOI_CHANNELS_RGBA ELSE QOI_CHANNELS_RGB,
         img.colorspace>>

\* guint64 max_pixel_index = image.width * image.height (a guint32 product)
SaveMaxPixelIndex == Mul32(ToU32(image.width), ToU32(image.height))

SaveHeader ==
    /\ pc = "save"
    /\ s_file_data' = HeaderBytes(image)
    /\ s_pixel_index' = 0
    /\ previous_pixel' = StartPixel
    /\ s_array' = EmptyArray
    /\ pc' = "save_loop"
    /\ UNCHANGED <<image, s_chunks, load_vars>>

\* the pixel and hash of one pass of the for loop
SaveCurrent == PixelAt(image.pixels, s_pixel_index)
SaveHash == qoi_pixel_hash(SaveCurrent)

InSaveLoop == pc = "save_loop" /\ Lt32(ToU32(s_pixel_index), SaveMaxPixelIndex)

\* "run == QOI_MAX_RUN_LENGTH": the run is emitted and restarted
RunFullLate(run) == run = QOI_MAX_RUN_LENGTH + 2
RunFull(run) == run = QOI_MAX_RUN_LENGTH

\* "process_next": pixel idx exists and continues the run
ProcessNext(idx) ==
    /\ Lt32(ToU32(idx), SaveMaxPixelIndex)
    /\ qoi_pixel_equal(previous_pixel, PixelAt(image.pixels, idx))

\* the passes of the while (process_next) loop from pixel index idx, with run
\* = 0, up to the first pass that emits: the value of run in that pass
FirstEmit(idx) ==
    LET last == Len(image.pixels) - idx
        emits == {r \in 1 .. last : RunFull(r) \/ ~ProcessNext(idx + r)}
    IN  CHOOSE r \in emits : \A q \in emits : r <= q

\* the while (process_next) loop: from pixel index idx with run = 0, the run
\* bytes it appends to out and the pixel index it ends at, one emitted chunk
\* at a time
RECURSIVE RunLoop(_, _, _)
RunLoop(idx, out, log) ==
    LET run == FirstEmit(idx)
        idx1 == idx + run
        byte == U8(QOI_OP_RUN + (run - 1))
        out1 == Append(out, byte)
        log1 == Append(log, [op |-> "run", pixel |-> idx, bytes |-> <<byte>>,
                             run |-> run, slot |-> ZeroPixel])
    IN  IF ProcessNext(idx1)
        THEN RunLoop(idx1, out1, log1)
        ELSE [pixel_index |-> idx1, file_data |-> out1, chunks |-> log1]

SaveRun ==
    /\ InSaveLoop
    /\ qoi_pixel_equal(previous_pixel, SaveCurrent)
    /\ LET r == RunLoop(s_pixel_index, s_file_data, s_chunks)
       IN  /\ s_file_data' = r.file_data
           /\ s_pixel_index' = r.pixel_index
           /\ s_chunks' = r.chunks
    /\ UNCHANGED <<pc, image, previous_pixel, s_array, load_vars>>

\* "qoi_pixel_equal(current_pixel, array[hash])"
IndexHitByHash(pixel, slot) == qoi_pixel_hash(pixel) = qoi_pixel_hash(slot)
IndexHit(pixel, slot) == qoi_pixel_equal(pixel, slot)

\* line 364 left out: previous_pixel keeps its value
IndexPreviousKept == previous_pixel

\* line 364, "previous_pixel = current_pixel" of the index branch
IndexPrevious == SaveCurrent

SaveIndex ==
    /\ InSaveLoop
    /\ ~qoi_pixel_equal(previous_pixel, SaveCurrent)
    /\ IndexHit(SaveCurrent, s_array[SaveHash])
    /\ LET byte == QOI_OP_INDEX + SaveHash
       IN  /\ s_file_data' = Append(s_file_data, byte)
           /\ s_chunks' = Append(s_chunks, [op |-> "index", pixel |-> s_pixel_index,
                                            bytes |-> <<byte>>, run |-> 0,
                                            slot |-> s_array[SaveHash]])
    /\ previous_pixel' = IndexPrevious
    /\ s_pixel_index' = s_pixel_index + 1
    /\ UNCHANGED <<pc, image, s_array, load_vars>>

\* the third branch is taken
SaveNoAlphaChange ==
    /\ InSaveLoop
    /\ ~qoi_pixel_equal(previous_pixel, SaveCurrent)
    /\ ~IndexHit(SaveCurrent, s_array[SaveHash])
    /\ (~image.has_alpha \/ SaveCurrent.alpha = previous_pixel.alpha)

\* gint32 dr, dg, db, dr_dg, db_dg
SaveDr == SaveCurrent.red - previous_pixel.red
SaveDg == SaveCurrent.green - previous_pixel.green
SaveDb == SaveCurrent.blue - previous_pixel.blue
SaveDrDg == SaveDr - SaveDg
SaveDbDg == SaveDb - SaveDg

FitsDiff ==
    /\ QOI_DIFF_LOWER_BOUND <= SaveDr /\ SaveDr <= QOI_DIFF_UPPER_BOUND
    /\ QOI_DIFF_LOWER_BOUND <= SaveDg /\ SaveDg <= QOI_DIFF_UPPER_BOUND
    /\ QOI_DIFF_LOWER_BOUND <= SaveDb /\ SaveDb <= QOI_DIFF_UPPER_BOUND

FitsLuma ==
    /\ QOI_LUMA_GREEN_LOWER_BOUND <= SaveDg /\ SaveDg <= QOI_LUMA_GREEN_UPPER_BOUND
    /\ QOI_LUMA_RED_BLUE_LOWER_BOUND <= SaveDrDg
    /\ SaveDrDg <= QOI_LUMA_RED_BLUE_UPPER_BOUND
    /\ QOI_LUMA_RED_BLUE_LOWER_BOUND <= SaveDbDg
    /\ SaveDbDg <= QOI_LUMA_RED_BLUE_UPPER_BOUND

\* what every branch but the run and the index branch does after its bytes
SaveEmit(op, bytes) ==
    /\ s_file_data' = s_file_data \o bytes
    /\ s_chunks' = Append(s_chunks, [op |-> op, pixel |-> s_pixel_index,
                                     bytes |-> bytes, run |-> 0,
                                     slot |-> s_array[SaveHash]])
    /\ s_array' = [s_array EXCEPT ![SaveHash] = SaveCurrent]
    /\ previous_pixel' = SaveCurrent
    /\ s_pixel_index' = s_pixel_index + 1
    /\ UNCHANGED <<pc, image, load_vars>>

SaveDiff ==
    /\ SaveNoAlphaChange
    /\ FitsDiff
    /\ SaveEmit("diff",
                <<U8(QOI_OP_DIFF
                     + (SaveDr - QOI_DIFF_LOWER_BOUND) * 16
                     + (SaveDg - QOI_DIFF_LOWER_BOUND) * 4
                     + (SaveDb - QOI_DIFF_LOWER_BOUND))>>)

SaveLuma ==
    /\ SaveNoAlphaChange
    /\ ~FitsDiff
    /\ FitsLuma
    /\ SaveEmit("luma",
                <<U8(QOI_OP_LUMA + (SaveDg - QOI_LUMA_GREEN_LOWER_BOUND)),
                  U8((SaveDrDg - QOI_LUMA_RED_BLUE_LOWER_BOUND) * 16
                     + (SaveDbDg - QOI_LUMA_RED_BLUE_LOWER_BOUND))>>)

SaveRGB ==
    /\ SaveNoAlphaChange
    /\ ~FitsDiff
    /\ ~FitsLuma
    /\ SaveEmit("rgb",
                <<QOI_OP_RGB, SaveCurrent.red, SaveCurrent.green, SaveCurrent.blue>>)

SaveRGBA ==
    /\ InSaveLoop
    /\ ~qoi_pixel_equal(previous_pixel, SaveCurrent)
    /\ ~IndexHit(SaveCurrent, s_array[SaveHash])
    /\ ~(~image.has_alpha \/ SaveCurrent.alpha = previous_pixel.alpha)
    /\ SaveEmit("rgba",
                <<QOI_OP_RGBA, SaveCurrent.red, SaveCurrent.green, SaveCurrent.blue,
                  SaveCurrent.alpha>>)

\* the for loop ends: memcpy of the end marker
SaveEndMarker ==
    /\ pc = "save_loop"
    /\ ~Lt32(ToU32(s_pixel_index), SaveMaxPixelIndex)
    /\ s_file_data' = s_file_data \o QOI_END_MARKER
    /\ pc' = "save_write"
    /\ UNCHANGED <<image, s_pixel_index, previous_pixel, s_array, s_chunks, load_vars>>

\* fopen, fwrite of file_data[0 .. file_index - 1], fclose: save_image returns
SaveWrite ==
    /\ pc = "save_write"
    /\ file' = s_file_data
    /\ pc' = "saved"
    /\ UNCHANGED <<save_vars, file_index, pixel_index, max_pixel_index,
                   current_pixel, array, result, frees, heap, capacity, ret, error,
                   max_read, ended_early, chunks_end, header_read>>

SaveStep ==
    \/ SaveHeader
    \/ SaveRun
    \/ SaveIndex
    \/ SaveDiff
    \/ SaveLuma
    \/ SaveRGB
    \/ SaveRGBA
    \/ SaveEndMarker
    \/ SaveWrite

\* run() is entered for SAVE_PROC with an image of the drawable
InitSave ==
    /\ image \in Images(PixelSeqs, {QOI_COLORSPACE_SRGB})
    /\ pc = "save"
    /\ SaveIdle
    /\ file = <<>>
    /\ LoadIdle

SpecSave == InitSave /\ [][SaveStep]_vars

(***************************************************************************)
(* load_image.  The messages it gives are named after the error kinds of   *)
(* the format:                                                             *)
(*   "Could not read from file. ..."              ReadError                *)
(*   "The file ends unexpectedly."                UnexpectedEof            *)
(*   "'...' is not a valid QOI file."             BadMagic                 *)
(*   "Unsupported or unknown number of channels"  UnsupportedChannels      *)
(*   "Unsupported or unknown colorspace"          UnsupportedColorspace    *)
(*   "Invalid or unsupported width / height"      InvalidDimensions        *)
(*   "Failed to acquire storage for pixels."      OutOfMemory              *)
(*   "Too many encoded pixels."                   InvalidRunLength         *)
(*   "Invalid end marker."                        InvalidEndMarker         *)
(*   "File contains data past the end marker."    TrailingData             *)
(***************************************************************************)
\* gint file_size
file_size == Len(file)

\* QoiHeader header = *(QoiHeader *) &file_data[0]: the fields at offsets 0,
\* 4, 8, 12 and 13
header ==
    [magic |-> <<At(file, 0), At(file, 1), At(file, 2), At(file, 3)>>,
     width |-> LoadU32(At(file, 4), At(file, 5), At(file, 6), At(file, 7)),
     height |-> LoadU32(At(file, 8), At(file, 9), At(file, 10), At(file, 11)),
     channels |-> At(file, 12),
     colorspace |-> At(file, 13)]

Max(a, b) == IF a < b THEN b ELSE a

\* g_message(...); g_free(file_data); return false;
Fail(kind) ==
    /\ ret' = "false"
    /\ error' = kind
    /\ pc' = "returned"

\* g_message(...); g_free(result->pixels); g_free(file_data); return false;
\* the pointer in result->pixels keeps its value and now dangles
FailFreeingPixels(kind) ==
    /\ Fail(kind)
    /\ frees' = Append(frees, result.pixels)
    /\ result' = Assigned(result, "pixels", "freed")

\* lines 102-133: the file is read whole into g_try_malloc(file_size), which
\* is NULL for a size of 0
ReadFile ==
    /\ pc = "load"
    /\ IF file_size = 0
       THEN Fail("ReadError")
       ELSE /\ pc' = "header_size"
            /\ UNCHANGED <<ret, error>>
    /\ UNCHANGED <<save_vars, file, file_index, pixel_index, max_pixel_index,
                   current_pixel, array, result, frees, heap, capacity, max_read,
                   ended_early, chunks_end, header_read>>

\* "file_size < file_index + QOI_HEADER_SIZE"
HeaderMissing == file_size < file_index + QOI_HEADER_SIZE

\* sizeof(QoiHeader): the 14 bytes of the fields and 2 bytes of padding
SizeofQoiHeader == 16

\* lines 135-143.  "header = *(QoiHeader *) &file_data[file_index]" copies a
\* QoiHeader: the bytes of its fields, and its padding too where the build
\* copies the whole object, which is past the end of a file of 14 or 15 bytes
CheckHeaderSize ==
    /\ pc = "header_size"
    /\ IF HeaderMissing
       THEN /\ Fail("UnexpectedEof")
            /\ UNCHANGED <<file_index, header_read>>
       ELSE /\ file_index' = file_index + QOI_HEADER_SIZE
            /\ header_read' \in {QOI_HEADER_SIZE - 1, SizeofQoiHeader - 1}
            /\ pc' = "magic"
            /\ UNCHANGED <<ret, error>>
    /\ UNCHANGED <<save_vars, file, pixel_index, max_pixel_index, current_pixel,
                   array, result, frees, heap, capacity, max_read, ended_early,
                   chunks_end>>

CheckMagic ==
    /\ pc = "magic"
    /\ IF header.magic # Magic
       THEN Fail("BadMagic")
       ELSE /\ pc' = "channels"
            /\ UNCHANGED <<ret, error>>
    /\ UNCHANGED <<save_vars, file, file_index, pixel_index, max_pixel_index,
                   current_pixel, array, result, frees, heap, capacity, max_read,
                   ended_early, chunks_end, header_read>>

CheckChannels ==
    /\ pc = "channels"
    /\ IF header.channels = QOI_CHANNELS_RGB
       THEN /\ result' = Assigned(result, "has_alpha", FALSE) /\ UNCHANGED frees
            /\ pc' = "colorspace"
            /\ UNCHANGED <<ret, error>>
       ELSE IF header.channels = QOI_CHANNELS_RGBA
       THEN /\ result' = Assigned(result, "has_alpha", TRUE) /\ UNCHANGED frees
            /\ pc' = "colorspace"
            /\ UNCHANGED <<ret, error>>
       ELSE /\ Fail("UnsupportedChannels")
            /\ UNCHANGED <<result, frees>>
    /\ UNCHANGED <<save_vars, file, file_index, pixel_index, max_pixel_index,
                   current_pixel, array, heap, capacity, max_read, ended_early,
                   chunks_end, header_read>>

CheckColorspace ==
    /\ pc = "colorspace"
    /\ IF header.colorspace \in {QOI_COLORSPACE_SRGB, QOI_COLORSPACE_LINEAR}
       THEN /\ result' = Assigned(result, "colorspace", header.colorspace)
            /\ UNCHANGED frees
            /\ pc' = "width"
            /\ UNCHANGED <<ret, error>>
       ELSE /\ Fail("UnsupportedColorspace")
            /\ UNCHANGED <<result, frees>>
    /\ UNCHANGED <<save_vars, file, file_index, pixel_index, max_pixel_index,
                   current_pixel, array, heap, capacity, max_read, ended_early,
                   chunks_end, header_read>>

\* "x == 0 || x > GIMP_MAX_IMAGE_SIZE"
BadDimension(x) == x = Zero32 \/ Gt32(x, ToU32(GIMP_MAX_IMAGE_SIZE))

\* lines 172-179: both dimensions are stored, then the width is checked
CheckWidth ==
    /\ pc = "width"
    /\ LET w == guint32_swap_local_and_big_endian(header.width)
           h == guint32_swap_local_and_big_endian(header.height)
       IN  /\ result' = Assigned(Assigned(result, "width", w), "height", h)
           /\ UNCHANGED frees
           /\ IF BadDimension(w)
              THEN Fail("InvalidDimensions")
              ELSE /\ pc' = "height"
                   /\ UNCHANGED <<ret, error>>
    /\ UNCHANGED <<save_vars, file, file_index, pixel_index, max_pixel_index,
                   current_pixel, array, heap, capacity, max_read, ended_early,
                   chunks_end, header_read>>

CheckHeight ==
    /\ pc = "height"
    /\ IF BadDimension(result.height)
       THEN Fail("InvalidDimensions")
       ELSE /\ pc' = "alloc"
            /\ UNCHANGED <<ret, error>>
    /\ UNCHANGED <<save_vars, file, file_index, pixel_index, max_pixel_index,
                   current_pixel, array, result, frees, heap, capacity, max_read,
                   ended_early, chunks_end, header_read>>

\* "result->width * result->height": a guint32 product
PixelCount == Mul32(result.width, result.height)

\* lines 187-197: g_try_malloc of PixelCount pixels (NULL for a size of 0; an
\* allocation of a positive size is taken to succeed), then the locals
AllocPixels ==
    /\ pc = "alloc"
    /\ IF PixelCount = Zero32
       THEN /\ result' = Assigned(result, "pixels", "null") /\ UNCHANGED frees
            /\ Fail("OutOfMemory")
            /\ UNCHANGED <<capacity, pixel_index, max_pixel_index, current_pixel,
                           array>>
       ELSE /\ result' = Assigned(result, "pixels", "allocated") /\ UNCHANGED frees
            /\ capacity' = PixelCount
            /\ pixel_index' = 0
            /\ max_pixel_index' = PixelCount
            /\ current_pixel' = StartPixel
            /\ array' = EmptyArray
            /\ pc' = "loop"
            /\ UNCHANGED <<ret, error>>
    /\ UNCHANGED <<save_vars, file, file_index, heap, max_read, ended_early,
                   chunks_end, header_read>>

(***************************************************************************)
(* load_image: the chunk loop.                                             *)
(***************************************************************************)
\* "pixel_index < max_pixel_index"
MorePixels == Lt32(ToU32(pixel_index), max_pixel_index)

\* the loop's test if it asked only for the tag
EndMarkerMissingTagOnly == file_size < file_index + 1

\* "file_size < file_index + QOI_END_MARKER_SIZE"
EndMarkerMissing == file_size < file_index + QOI_END_MARKER_SIZE

\* memcmp(&file_data[at], QOI_END_MARKER, QOI_END_MARKER_SIZE) == 0
AtEndMarker(at) ==
    \A k \in 0 .. QOI_END_MARKER_SIZE - 1 : At(file, at + k) = QOI_END_MARKER[k + 1]

\* the loop is entered for one more chunk, which is there
InLoop == pc = "loop" /\ MorePixels /\ ~EndMarkerMissing

\* guint8 tag = file_data[file_index++]
tag == At(file, file_index)

\* the two top bits of the tag, "tag & QOI_SMALL_TAG_MASK"
SmallTag == (tag \div 64) * 64

\* lines 201-206
LoopEof ==
    /\ pc = "loop"
    /\ MorePixels
    /\ EndMarkerMissing
    /\ FailFreeingPixels("UnexpectedEof")
    /\ UNCHANGED <<save_vars, file, file_index, pixel_index, max_pixel_index,
                   current_pixel, array, heap, capacity, max_read, ended_early,
                   chunks_end, header_read>>

\* a chunk of n bytes was consumed, with file_data read up to index last, and
\* gave the pixel: it is stored at result->pixels[pixel_index++] and becomes
\* current_pixel
Decoded(n, last, pixel) ==
    /\ file_index' = file_index + n
    /\ max_read' = Max(max_read, last)
    /\ current_pixel' = pixel
    /\ heap' = Append(heap, pixel)
    /\ pixel_index' = pixel_index + 1
    /\ UNCHANGED <<pc, save_vars, file, max_pixel_index, result, frees, capacity, ret,
                   error, ended_early, chunks_end, header_read>>

\* array[qoi_pixel_hash(current_pixel)] = current_pixel
Cached(pixel) == array' = [array EXCEPT ![qoi_pixel_hash(pixel)] = pixel]

LoadRGB ==
    /\ InLoop
    /\ tag = QOI_OP_RGB
    /\ LET pixel == Pixel(At(file, file_index + 1), At(file, file_index + 2),
                          At(file, file_index + 3), current_pixel.alpha)
       IN  Decoded(4, file_index + 3, pixel) /\ Cached(pixel)

LoadRGBA ==
    /\ InLoop
    /\ tag = QOI_OP_RGBA
    /\ LET pixel == Pixel(At(file, file_index + 1), At(file, file_index + 2),
                          At(file, file_index + 3), At(file, file_index + 4))
       IN  Decoded(5, file_index + 4, pixel) /\ Cached(pixel)

\* lines 226-236: the tag is an index tag and the 8 bytes from it are the end
\* marker; the loop is left with the tag consumed
LoadEndMarker ==
    /\ InLoop
    /\ tag \notin {QOI_OP_RGB, QOI_OP_RGBA}
    /\ SmallTag = QOI_OP_INDEX
    /\ AtEndMarker(file_index)
    /\ file_index' = file_index + 1
    /\ max_read' = Max(max_read, file_index + QOI_END_MARKER_SIZE - 1)
    /\ ended_early' = TRUE
    /\ chunks_end' = file_index
    /\ pc' = "trailer"
    /\ UNCHANGED <<save_vars, file, pixel_index, max_pixel_index, current_pixel,
                   array, result, frees, heap, capacity, ret, error, header_read>>

LoadIndex ==
    /\ InLoop
    /\ tag \notin {QOI_OP_RGB, QOI_OP_RGBA}
    /\ SmallTag = QOI_OP_INDEX
    /\ ~AtEndMarker(file_index)
    /\ Decoded(1, file_index + QOI_END_MARKER_SIZE - 1, array[tag % 64])
    /\ UNCHANGED array

LoadDiff ==
    /\ InLoop
    /\ tag \notin {QOI_OP_RGB, QOI_OP_RGBA}
    /\ SmallTag = QOI_OP_DIFF
    /\ LET dr == ((tag \div 16) % 4) + QOI_DIFF_LOWER_BOUND
           dg == ((tag \div 4) % 4) + QOI_DIFF_LOWER_BOUND
           db == (tag % 4) + QOI_DIFF_LOWER_BOUND
           pixel == Pixel(U8(current_pixel.red + dr), U8(current_pixel.green + dg),
                          U8(current_pixel.blue + db), current_pixel.alpha)
       IN  Decoded(1, file_index, pixel) /\ Cached(pixel)

LoadLuma ==
    /\ InLoop
    /\ tag \notin {QOI_OP_RGB, QOI_OP_RGBA}
    /\ SmallTag = QOI_OP_LUMA
    /\ LET dr_db == At(file, file_index + 1)
           dg == (tag % 64) + QOI_LUMA_GREEN_LOWER_BOUND
           dr == ((dr_db \div 16) % 16) + QOI_LUMA_RED_BLUE_LOWER_BOUND + dg
           db == (dr_db % 16) + QOI_LUMA_RED_BLUE_LOWER_BOUND + dg
           pixel == Pixel(U8(current_pixel.red + dr), U8(current_pixel.green + dg),
                          U8(current_pixel.blue + db), current_pixel.alpha)
       IN  Decoded(2, file_index + 1, pixel) /\ Cached(pixel)

\* "pixel_index > max_pixel_index + run", a guint64 comparison, which cannot
\* wrap: pixel_index - run > max_pixel_index
RunTooLong(run) ==
    /\ pixel_index - run >= 0
    /\ Gt32(ToU32(pixel_index - run), max_pixel_index)

\* the heap holds more pixels than were allocated: a write went past the
\* end of result->pixels
Overflowed(pixels) == Gt32(ToU32(Len(pixels)), capacity)

\* lines 265-277.  A write past the end of the allocation is undefined: the
\* process goes on with a corrupted heap or is ended.
LoadRun ==
    /\ InLoop
    /\ tag \notin {QOI_OP_RGB, QOI_OP_RGBA}
    /\ SmallTag = QOI_OP_RUN
    /\ LET run == U8((tag % 64) + 1)
       IN  IF RunTooLong(run)
           THEN /\ FailFreeingPixels("InvalidRunLength")
                /\ UNCHANGED <<file_index, max_read, heap, pixel_index>>
           ELSE /\ file_index' = file_index + 1
                /\ max_read' = Max(max_read, file_index)
                /\ heap' = heap \o Repeat(current_pixel, run)
                /\ pixel_index' = pixel_index + run
                /\ IF Overflowed(heap')
                   THEN pc' \in {"loop", "aborted"}
                   ELSE pc' = "loop"
                /\ UNCHANGED <<result, frees, ret, error>>
    /\ UNCHANGED <<save_vars, file, max_pixel_index, current_pixel, array,
                   capacity, ended_early, chunks_end, header_read>>

\* the while condition fails
LoopExit ==
    /\ pc = "loop"
    /\ ~MorePixels
    /\ pc' = "trailer"
    /\ chunks_end' = file_index
    /\ UNCHANGED <<save_vars, file, file_index, pixel_index, max_pixel_index,
                   current_pixel, array, result, frees, heap, capacity, ret, error,
                   max_read, ended_early, header_read>>

(***************************************************************************)
(* load_image: the end marker (lines 280-306).                             *)
(***************************************************************************)
CheckTrailerSize ==
    /\ pc = "trailer"
    /\ IF EndMarkerMissing
       THEN FailFreeingPixels("UnexpectedEof")
       ELSE /\ pc' = "end_marker"
            /\ UNCHANGED <<result, frees, ret, error>>
    /\ UNCHANGED <<save_vars, file, file_index, pixel_index, max_pixel_index,
                   current_pixel, array, heap, capacity, max_read, ended_early,
                   chunks_end, header_read>>

CheckEndMarker ==
    /\ pc = "end_marker"
    /\ max_read' = Max(max_read, file_index + QOI_END_MARKER_SIZE - 1)
    /\ IF ~AtEndMarker(file_index)
       THEN /\ FailFreeingPixels("InvalidEndMarker")
            /\ UNCHANGED file_index
       ELSE /\ file_index' = file_index + QOI_END_MARKER_SIZE
            /\ pc' = "trailing"
            /\ UNCHANGED <<result, frees, ret, error>>
    /\ UNCHANGED <<save_vars, file, pixel_index, max_pixel_index, current_pixel,
                   array, heap, capacity, ended_early, chunks_end, header_read>>

CheckTrailing ==
    /\ pc = "trailing"
    /\ IF file_index # file_size
       THEN FailFreeingPixels("TrailingData")
       ELSE /\ ret' = "true"
            /\ pc' = "returned"
            /\ UNCHANGED <<result, frees, error>>
    /\ UNCHANGED <<save_vars, file, file_index, pixel_index, max_pixel_index,
                   current_pixel, array, heap, capacity, max_read, ended_early,
                   chunks_end, header_read>>

(***************************************************************************)
(* run() after load_image has returned (lines 693-703).                    *)
(***************************************************************************)
\* what qoi_image.pixels is when load_image has returned
PixelsPointer ==
    IF "pixels" \in DOMAIN result THEN result.pixels ELSE "indeterminate"

\* line 703, "g_free(qoi_image.pixels)", whatever load_image returned.  The
\* g_free of a pointer that dangles or was never written is undefined: the
\* process goes on with a corrupted heap or is ended.
RunFreePixels ==
    /\ pc = "returned"
    /\ frees' = Append(frees, PixelsPointer)
    /\ result' = IF PixelsPointer = "allocated"
                 THEN Assigned(result, "pixels", "freed")
                 ELSE result
    /\ IF PixelsPointer \in {"allocated", "null"}
       THEN pc' = "done"
       ELSE pc' \in {"done", "aborted_in_free"}
    /\ UNCHANGED <<save_vars, file, file_index, pixel_index, max_pixel_index,
                   current_pixel, array, heap, capacity, ret, error, max_read,
                   ended_early, chunks_end, header_read>>

LoadStep ==
    \/ ReadFile
    \/ CheckHeaderSize
    \/ CheckMagic
    \/ CheckChannels
    \/ CheckColorspace
    \/ CheckWidth
    \/ CheckHeight
    \/ AllocPixels
    \/ LoopEof
    \/ LoadRGB
    \/ LoadRGBA
    \/ LoadEndMarker
    \/ LoadIndex
    \/ LoadDiff
    \/ LoadLuma
    \/ LoadRun
    \/ LoopExit
    \/ CheckTrailerSize
    \/ CheckEndMarker
    \/ CheckTrailing
    \/ RunFreePixels

(***************************************************************************)
(* The files load_image is given.                                          *)
(***************************************************************************)
\* the bound of the chunk streams: the number of chunks of a generated file
MaxChunks == 2

\* the four bytes of a number on the wire, most significant first
BigEndian(n) == LET v == ToU32(n) IN <<v[4], v[3], v[2], v[1]>>

FileHeader(magic, width, height, channels, colorspace) ==
    magic \o BigEndian(width) \o BigEndian(height) \o <<channels, colorspace>>

\* headers with each field right, wrong, and at the edge of what is accepted
HeaderSet ==
    {FileHeader(magic, width, height, channels, colorspace) :
        magic \in {Magic, <<113, 111, 105, 0>>},
        width \in {0, 1, GIMP_MAX_IMAGE_SIZE, GIMP_MAX_IMAGE_SIZE + 1},
        height \in {0, 1, GIMP_MAX_IMAGE_SIZE, GIMP_MAX_IMAGE_SIZE + 1},
        channels \in {2, QOI_CHANNELS_RGB, QOI_CHANNELS_RGBA, 5},
        colorspace \in {QOI_COLORSPACE_SRGB, QOI_COLORSPACE_LINEAR, 2}}

\* right headers of images of 1, 2 and 3 pixels
SmallHeaderSet ==
    {FileHeader(Magic, width, 1, QOI_CHANNELS_RGBA, QOI_COLORSPACE_SRGB) :
        width \in 1 .. 3}

\* one chunk of each kind: a literal of each kind, index 0 and the index of
\* the literal's hash, a diff that wraps, a luma, runs of 1 and 2
ChunkSet ==
    {<<QOI_OP_RGB, 100, 50, 200>>,
     <<QOI_OP_RGBA, 100, 50, 200, 128>>,
     <<QOI_OP_INDEX>>,
     <<QOI_OP_INDEX + qoi_pixel_hash(Far)>>,
     <<QOI_OP_DIFF>>,
     <<QOI_OP_LUMA + 36, 137>>,
     <<QOI_OP_RUN>>,
     <<QOI_OP_RUN + 1>>}

RECURSIVE Flatten(_)
Flatten(chunks) ==
    IF chunks = <<>> THEN <<>> ELSE Head(chunks) \o Flatten(Tail(chunks))

ChunkStreams ==
    UNION {{Flatten(c) : c \in [1 .. n -> ChunkSet]} : n \in 0 .. MaxChunks}

\* what follows the chunks: the end marker, whole, cut, wrong, followed by a
\* byte, or nothing
TailSet ==
    {QOI_END_MARKER,
     QOI_END_MARKER \o <<0>>,
     SubSeq(QOI_END_MARKER, 1, QOI_END_MARKER_SIZE - 1),
     <<0, 0, 0, 0, 0, 0, 0, 0>>,
     <<>>}

\* a right file of one pixel, and all it starts with
OnePixelFile ==
    FileHeader(Magic, 1, 1, QOI_CHANNELS_RGBA, QOI_COLORSPACE_SRGB)
    \o <<QOI_OP_RGBA, 100, 50, 200, 128>> \o QOI_END_MARKER

\* a right header whose dimensions are both accepted and whose product is
\* 2 * 2^32 + 1
WrappingHeader ==
    FileHeader(Magic, 20857, 411849, QOI_CHANNELS_RGBA, QOI_COLORSPACE_SRGB)

FileSet ==
    {h \o QOI_END_MARKER : h \in HeaderSet}
    \cup {h \o c \o t : h \in SmallHeaderSet \cup {WrappingHeader},
                         c \in ChunkStreams, t \in TailSet}
    \cup {SubSeq(OnePixelFile, 1, n) : n \in 0 .. Len(OnePixelFile)}

\* no image is saved
NoImage == ImageOf(<<>>, 1, FALSE, QOI_COLORSPACE_SRGB)

\* run() is entered for LOAD_PROC with the name of a file
InitLoad ==
    /\ image = NoImage
    /\ pc = "load"
    /\ SaveIdle
    /\ file \in FileSet
    /\ LoadIdle

SpecLoad == InitLoad /\ [][LoadStep]_vars

(***************************************************************************)
(* A file is saved and then loaded: whole, or cut short.                   *)
(***************************************************************************)
\* run() is entered for LOAD_PROC with the file that was saved
Open ==
    /\ pc = "saved"
    /\ pc' = "load"
    /\ UNCHANGED <<save_vars, load_vars>>

\* run() is entered for LOAD_PROC with a file that holds only the first n
\* bytes of what was saved
OpenTruncated ==
    /\ pc = "saved"
    /\ \E n \in 0 .. Len(s_file_data) - 1 : file' = SubSeq(s_file_data, 1, n)
    /\ pc' = "load"
    /\ UNCHANGED <<save_vars, file_index, pixel_index, max_pixel_index,
                   current_pixel, array, result, frees, heap, capacity, ret, error,
                   max_read, ended_early, chunks_end, header_read>>

\* load_image on what save_image wrote: every step but the end-marker break
LoadSavedStep ==
    \/ ReadFile
    \/ CheckHeaderSize
    \/ CheckMagic
    \/ CheckChannels
    \/ CheckColorspace
    \/ CheckWidth
    \/ CheckHeight
    \/ AllocPixels
    \/ LoopEof
    \/ LoadRGB
    \/ LoadRGBA
    \/ LoadIndex
    \/ LoadDiff
    \/ LoadLuma
    \/ LoadRun
    \/ LoopExit
    \/ CheckTrailerSize
    \/ CheckEndMarker
    \/ CheckTrailing
    \/ RunFreePixels

\* the bound of the images that are saved and loaded again: a first pixel,
\* once or as one pixel and a full run, then up to MaxSavedPixels - 1 pixels
MaxSavedPixels == 2

Init ==
    /\ image \in Images(SeqsOf(MaxSavedPixels, {1, QOI_MAX_RUN_LENGTH + 1}),
                        {QOI_COLORSPACE_SRGB, QOI_COLORSPACE_LINEAR})
    /\ pc = "save"
    /\ SaveIdle
    /\ file = <<>>
    /\ LoadIdle

Next == SaveStep \/ Open \/ OpenTruncated \/ LoadSavedStep

Spec == Init /\ [][Next]_vars

(***************************************************************************)
(* Round trip (C1).                                                        *)
(***************************************************************************)
\* C1: when load_image has returned from the whole file that save_image wrote
\* for an image, it returned true and gave back the image: the same width,
\* height, colorspace and alpha flag, and the same pixels in all four
\* channels.
C1_RoundTrip ==
    (pc = "returned" /\ file = s_file_data) =>
        /\ ret = "true"
        /\ result.width = ToU32(image.width)
        /\ result.height = ToU32(image.height)
        /\ result.colorspace = image.colorspace
        /\ result.has_alpha = image.has_alpha
        /\ heap = image.pixels

(***************************************************************************)
(* Runs in the decoder (C2).                                               *)
(***************************************************************************)
\* the loop is at a run chunk whose run goes past the last pixel of the image
RunPastEnd ==
    /\ InLoop
    /\ tag \notin {QOI_OP_RGB, QOI_OP_RGBA}
    /\ SmallTag = QOI_OP_RUN
    /\ Gt32(ToU32(pixel_index + (tag % 64) + 1), max_pixel_index)

\* C2: a run chunk met when pixel_index + run > width * height is rejected
\* with InvalidRunLength before a pixel of the run is written, and no step of
\* the decoder writes a pixel at an index >= width * height.
C2_RunOverrunRejected ==
    [][/\ RunPastEnd =>
            (ret' = "false" /\ error' = "InvalidRunLength" /\ heap' = heap)
       /\ ~Overflowed(heap')]_vars

(***************************************************************************)
(* The end marker met in the chunk loop (C3).                              *)
(***************************************************************************)
\* C3: when the loop is left at an index tag whose 8 bytes are the end
\* marker, the trailer is validated from that tag, on those same 8 bytes, and
\* a file whose last 8 bytes are that marker is not rejected with
\* InvalidEndMarker or UnexpectedEof.
C3_EarlyEndMarkerIsTheTrailer ==
    ended_early =>
        /\ pc = "trailer" => file_index = chunks_end
        /\ (pc = "returned" /\ chunks_end + QOI_END_MARKER_SIZE = file_size) =>
                error \notin {"InvalidEndMarker", "UnexpectedEof"}

(***************************************************************************)
(* What a failed load leaves behind (C4).                                  *)
(***************************************************************************)
\* C4: when load_image returns false, the caller's QoiImage is as it was
\* before the call: no field of it was written.
C4_FailureLeavesResult ==
    (pc = "returned" /\ ret = "false") => result = ResultBefore

(***************************************************************************)
(* The header (C5).                                                        *)
(***************************************************************************)
\* the four bytes at index at of the file, a big-endian number, as a guint32
WireNumber(at) ==
    <<At(file, at + 3), At(file, at + 2), At(file, at + 1), At(file, at)>>

\* the first of the header's tests that the file fails, in the order size,
\* magic, channels, colorspace, dimensions; "None" when it passes them all
HeaderVerdict ==
    IF Len(file) < 14 THEN "UnexpectedEof"
    ELSE IF SubSeq(file, 1, 4) # <<113, 111, 105, 102>> THEN "BadMagic"
    ELSE IF file[13] \notin {3, 4} THEN "UnsupportedChannels"
    ELSE IF file[14] \notin {0, 1} THEN "UnsupportedColorspace"
    ELSE IF \E at \in {4, 8} :
                \/ WireNumber(at) = Zero32
                \/ Gt32(WireNumber(at), ToU32(524288))
         THEN "InvalidDimensions"
    ELSE "None"

\* load_image went on past the header's tests
HeaderAccepted ==
    \/ pc \in {"alloc", "loop", "trailer", "end_marker", "trailing", "aborted"}
    \/ pc = "returned" /\ "pixels" \in DOMAIN result

\* C5: a file that fails one of the header's tests is rejected with the error
\* of the first test it fails, in the order size (UnexpectedEof), magic,
\* channels, colorspace, dimensions; a file that fails none is accepted, and
\* the alpha flag is then set exactly when the channels byte is 4.
C5_HeaderParsing ==
    /\ HeaderVerdict # "None" => ~HeaderAccepted
    /\ (pc = "returned" /\ HeaderVerdict # "None") =>
            (ret = "false" /\ error = HeaderVerdict)
    /\ (pc = "returned" /\ HeaderVerdict = "None") => HeaderAccepted
    /\ HeaderAccepted => result.has_alpha = (file[13] = 4)

(***************************************************************************)
(* Cut files (C6).                                                         *)
(***************************************************************************)
\* C6: when load_image has returned from a file that holds only the first
\* bytes of what save_image wrote, it returned false: with UnexpectedEof when
\* fewer than 14 bytes are left, with UnexpectedEof or InvalidEndMarker
\* otherwise.
C6_TruncationFails ==
    (pc = "returned" /\ file # s_file_data) =>
        /\ ret = "false"
        /\ Len(file) < 14 => error = "UnexpectedEof"
        /\ Len(file) >= 14 => error \in {"UnexpectedEof", "InvalidEndMarker"}

(***************************************************************************)
(* The trailer (C7).                                                       *)
(***************************************************************************)
\* C7: when load_image has returned after the chunk loop was left, with n
\* bytes after the last pixel chunk: n < 8 gave UnexpectedEof, 8 bytes that
\* are not the end marker gave InvalidEndMarker, a byte after the end marker
\* gave TrailingData; it returned true only when the n bytes are the end
\* marker and nothing else.
C7_TrailerValidation ==
    (pc = "returned" /\ chunks_end >= 0) =>
        LET n == Len(file) - chunks_end
            marker == n >= 8 /\ SubSeq(file, chunks_end + 1, chunks_end + 8)
                                    = <<0, 0, 0, 0, 0, 0, 0, 1>>
        IN  /\ n < 8 => (ret = "false" /\ error = "UnexpectedEof")
            /\ (n >= 8 /\ ~marker) => (ret = "false" /\ error = "InvalidEndMarker")
            /\ (marker /\ n > 8) => (ret = "false" /\ error = "TrailingData")
            /\ ret = "true" => (marker /\ n = 8)

(***************************************************************************)
(* Runs in the encoder (C8).                                               *)
(***************************************************************************)
\* the previous-pixel register when pixel i is taken up
RegisterAt(i) == IF i = 0 THEN StartPixel ELSE PixelAt(image.pixels, i - 1)

\* pixel i is there and equals the previous-pixel register
InRun(i) ==
    /\ i >= 0
    /\ i < Len(image.pixels)
    /\ PixelAt(image.pixels, i) = RegisterAt(i)

\* the length of the longest sequence of pixels from i that equal the register
RunLengthFrom(i) == CHOOSE n \in 1 .. Len(image.pixels) + 1 :
                        /\ ~InRun(i + n)
                        /\ \A m \in 1 .. n - 1 : InRun(i + m)

\* the run chunks the rule gives: for each longest sequence of n pixels that
\* equal the register, chunks of 62 and then one of the remainder, 1 .. 62
ExpectedRuns ==
    UNION {LET n == RunLengthFrom(i)
           IN  {[pixel |-> i + 62 * j,
                 run |-> IF 62 * (j + 1) <= n THEN 62 ELSE n - 62 * j] :
                    j \in 0 .. ((n - 1) \div 62)} :
           i \in {i \in 0 .. Len(image.pixels) - 1 : InRun(i) /\ ~InRun(i - 1)}}

\* the run chunks save_image emitted, in order
RunChunks == SelectSeq(s_chunks, LAMBDA c : c.op = "run")

\* the run chunks emitted for the pixels before index n
RunBytesBefore(n) ==
    LET chunks == SelectSeq(s_chunks, LAMBDA c : c.op = "run" /\ c.pixel < n)
    IN  [k \in 1 .. Len(chunks) |-> chunks[k].bytes[1]]

\* the number of pixels at the start of the image that equal its first pixel
LeadingCount ==
    CHOOSE n \in 1 .. Len(image.pixels) :
        /\ \A m \in 1 .. n : image.pixels[m] = image.pixels[1]
        /\ n < Len(image.pixels) => image.pixels[n + 1] # image.pixels[1]

\* C8 (as amended): when save_image is done, each longest sequence of n
\* pixels that equal the previous-pixel register was emitted as run chunks of
\* 62 pixels and then one run chunk of the remaining 1 .. 62 pixels, no other
\* run chunk was emitted, and a run chunk of k pixels is the byte 0xC0 + k - 1,
\* which lies in 0xC0 .. 0xFD.  So 62 pixels that equal the register, followed
\* by a different pixel, are one run chunk of stored length 61, and 63 are a
\* run chunk of stored length 61 and a run chunk of stored length 0.
C8_RunCoalescing ==
    pc = "saved" =>
        /\ {[pixel |-> RunChunks[k].pixel, run |-> RunChunks[k].run] :
                k \in 1 .. Len(RunChunks)} = ExpectedRuns
        /\ Len(RunChunks) = Cardinality(ExpectedRuns)
        /\ \A k \in 1 .. Len(RunChunks) :
               /\ RunChunks[k].bytes = <<192 + RunChunks[k].run - 1>>
               /\ RunChunks[k].bytes[1] \in 192 .. 253

\* C8 (as stated): the rule above, and an image that starts with exactly 62
\* identical pixels followed by a different pixel has one run chunk for them,
\* of stored length 61, and an image that starts with exactly 63 identical
\* pixels has two, of stored lengths 61 and 0.
C8_IdenticalPixelsCoalesce ==
    pc = "saved" /\ Len(image.pixels) > 0 =>
        /\ C8_RunCoalescing
        /\ (LeadingCount = 62 /\ Len(image.pixels) > 62) =>
                RunBytesBefore(62) = <<253>>
        /\ LeadingCount = 63 => RunBytesBefore(63) = <<253, 192>>

\* a sequence of 63 pixels that equal the register, followed by a different
\* pixel, was saved as a full run chunk and a run chunk of one pixel
C8_Witness ==
    /\ pc = "saved"
    /\ Len(image.pixels) > 63
    /\ LeadingCount = 63
    /\ RunBytesBefore(63) = <<253, 192>>

(***************************************************************************)
(* The cache in the encoder (C9).                                          *)
(***************************************************************************)
\* pixels i - 2, i - 1, i are A, B, A with A # B and the same hash
Collides(i) ==
    /\ i >= 2
    /\ i < Len(image.pixels)
    /\ PixelAt(image.pixels, i) = PixelAt(image.pixels, i - 2)
    /\ PixelAt(image.pixels, i) # PixelAt(image.pixels, i - 1)
    /\ qoi_pixel_hash(PixelAt(image.pixels, i))
            = qoi_pixel_hash(PixelAt(image.pixels, i - 1))

\* C9: an index chunk is emitted for a pixel only when the cache slot of the
\* pixel's hash held exactly that pixel, in all four channels, and it is the
\* byte of that hash; the third pixel of A, B, A, where A # B have the same
\* hash, is emitted as a diff, luma or literal chunk.
C9_IndexOnlyOnEqualPixel ==
    \A k \in 1 .. Len(s_chunks) :
        LET c == s_chunks[k]
            pixel == PixelAt(image.pixels, c.pixel)
        IN  /\ c.op = "index" =>
                    (c.slot = pixel /\ c.bytes = <<qoi_pixel_hash(pixel)>>)
            /\ Collides(c.pixel) => c.op \in {"diff", "luma", "rgb", "rgba"}

\* A, B, A with colliding hashes was saved
C9_Witness ==
    /\ pc = "saved"
    /\ \E k \in 1 .. Len(s_chunks) :
            /\ Collides(s_chunks[k].pixel)
            /\ s_chunks[k].op \in {"diff", "luma", "rgb", "rgba"}
            /\ s_chunks[k].slot = PixelAt(image.pixels, s_chunks[k].pixel - 1)

(***************************************************************************)
(* The reads of the decoder (C10).                                         *)
(***************************************************************************)
\* C10: every index of the file that a step of load_image reads (a tag, the
\* bytes of a chunk, the 8 bytes compared at an index tag, the 8 bytes of the
\* trailer) is smaller than the file's length; the loop consumes a chunk only
\* when at least 8 bytes are left at its start, and with fewer it fails with
\* UnexpectedEof.
C10_ReadsInsideFile ==
    [][/\ max_read' < Len(file')
       /\ (pc = "loop" /\ file_index' > file_index) =>
                Len(file) - file_index >= 8
       /\ (pc = "loop" /\ MorePixels /\ Len(file) - file_index < 8) =>
                (ret' = "false" /\ error' = "UnexpectedEof")]_vars

\* the 8 bytes compared at an index tag were the last 8 of the file, and the
\* next chunk was refused for want of bytes
C10_Witness ==
    /\ pc = "returned"
    /\ error = "UnexpectedEof"
    /\ Len(heap) >= 1
    /\ max_read = Len(file) - 1

(***************************************************************************)
(* The end marker and the chunks of the encoder (C11).                     *)
(***************************************************************************)
\* the index in s_file_data of the first byte of the k-th emitted chunk (of
\* the end marker, for k one more than the number of chunks)
RECURSIVE ChunkOffset(_)
ChunkOffset(k) ==
    IF k = 1 THEN 14 ELSE ChunkOffset(k - 1) + Len(s_chunks[k - 1].bytes)

\* save_image has written the whole file: header, chunks, end marker
FileWritten == pc \notin {"save", "save_loop"}

\* the loop of load_image is at an index tag whose 8 bytes are the end marker
EarlyEndMarkerMet ==
    /\ InLoop
    /\ tag \notin {QOI_OP_RGB, QOI_OP_RGBA}
    /\ SmallTag = QOI_OP_INDEX
    /\ AtEndMarker(file_index)

\* C11: in what save_image writes, the 8 bytes that start at a chunk are never
\* 00 00 00 00 00 00 00 01, and no two consecutive chunks are index chunks of
\* the same index; a pixel that does not continue a run and equals the cache
\* slot of its hash is emitted as the index chunk of that hash (0x00 for slot
\* 0); and load_image, given what save_image wrote or its first bytes, never
\* meets the end marker at an index tag in its chunk loop.
C11_EndMarkerNeverInChunks ==
    /\ FileWritten =>
            \A k \in 1 .. Len(s_chunks) :
                SubSeq(s_file_data, ChunkOffset(k) + 1, ChunkOffset(k) + 8)
                    # <<0, 0, 0, 0, 0, 0, 0, 1>>
    /\ \A k \in 1 .. Len(s_chunks) - 1 :
            ~(/\ s_chunks[k].op = "index"
              /\ s_chunks[k + 1].op = "index"
              /\ s_chunks[k].bytes = s_chunks[k + 1].bytes)
    /\ \A k \in 1 .. Len(s_chunks) :
            LET c == s_chunks[k]
                pixel == PixelAt(image.pixels, c.pixel)
            IN  (c.op # "run" /\ c.slot = pixel) =>
                    (c.op = "index" /\ c.bytes = <<qoi_pixel_hash(pixel)>>)
    /\ ~EarlyEndMarkerMet
    /\ ~ended_early

\* a file whose chunks start with the index chunk 0x00, followed by another
\* chunk, was loaded whole and load_image returned true
C11_Witness ==
    /\ pc = "returned"
    /\ ret = "true"
    /\ file = s_file_data
    /\ Len(s_chunks) >= 2
    /\ s_chunks[1].bytes = <<0>>
    /\ ~ended_early

(***************************************************************************)
(* The pixel count (C12).                                                  *)
(***************************************************************************)
\* the product of two guint32 as a number of 8 bytes, least significant
\* first: the product of the numbers, which is below 2^64
WideProduct(a, b) ==
    LET c1 == a[1] * b[1]
        c2 == a[1] * b[2] + a[2] * b[1] + (c1 \div 256)
        c3 == a[1] * b[3] + a[2] * b[2] + a[3] * b[1] + (c2 \div 256)
        c4 == a[1] * b[4] + a[2] * b[3] + a[3] * b[2] + a[4] * b[1] + (c3 \div 256)
        c5 == a[2] * b[4] + a[3] * b[3] + a[4] * b[2] + (c4 \div 256)
        c6 == a[3] * b[4] + a[4] * b[3] + (c5 \div 256)
        c7 == a[4] * b[4] + (c6 \div 256)
        c8 == c7 \div 256
    IN  <<c1 % 256, c2 % 256, c3 % 256, c4 % 256,
          c5 % 256, c6 % 256, c7 % 256, c8 % 256>>

\* a guint32 as a number of 8 bytes
Wide(a) == a \o <<0, 0, 0, 0>>

\* C12: once the header is accepted, the pixel count that sizes the pixel
\* buffer and bounds the loop is the product width * height of the numbers,
\* and when load_image has returned true, the buffer it allocated is one of
\* exactly width * height pixels.
C12_PixelCountIsProduct ==
    /\ HeaderAccepted =>
            Wide(PixelCount) = WideProduct(result.width, result.height)
    /\ (HeaderAccepted /\ pc # "alloc") =>
            (result.pixels = "null" \/ Wide(capacity) =
                                        WideProduct(result.width, result.height))
    /\ (pc = "returned" /\ ret = "true") =>
            Wide(capacity) = WideProduct(result.width, result.height)

(***************************************************************************)
(* The pixel buffer on load (C13).                                         *)
(***************************************************************************)
\* how many times g_free was given the pixel buffer while it was allocated
ValidFrees == Cardinality({k \in 1 .. Len(frees) : frees[k] = "allocated"})

\* C13: g_free is never given a pixels pointer that was freed before or was
\* never allocated, and when run() is done with a load in which the pixel
\* buffer was allocated, the buffer has been freed exactly once.
C13_PixelsFreedOnce ==
    /\ \A k \in 1 .. Len(frees) : frees[k] \notin {"freed", "indeterminate"}
    /\ (pc = "done" /\ capacity # Zero32) => ValidFrees = 1

====
